---------------------------- MODULE Spec2Model ----------------------------
(***************************************************************************)
(* Kilo HTTP Media Server (src/main.py): the path handling, the directory  *)
(* and media listings, the slideshow sequence and the file server, over a  *)
(* small filesystem.                                                       *)
(*                                                                         *)
(* Python strings are sequences of one-character strings, so that lower(), *)
(* split(), startswith() and the ordering of names are computed character  *)
(* by character, as the interpreter computes them.                         *)
(***************************************************************************)
EXTENDS Integers, Sequences, FiniteSets, TLC

\* random_state is the state of the generator of the random module, which
\* the process shares: how far it has advanced, modulo Period.  kept is no
\* state of the program: it is a request and its response as a client has
\* kept them, to compare a later response with.
VARIABLES MEDIA_ROOT, pc, request, response, random_state, kept

vars == <<MEDIA_ROOT, pc, request, response, random_state, kept>>

(***************************************************************************)
(* Bounds of the model.                                                    *)
(***************************************************************************)
\* longest client path, in segments
MaxSegs == 3
\* most '.'-separated components of a classified filename
MaxComps == 3
\* the states of the random generator that are told apart
Period == 3

(***************************************************************************)
(* Python str                                                              *)
(***************************************************************************)
\* Optional[str] without a value
None == <<"None">>

\* the characters of the model in code point order
Ascii ==
  <<"-", ".", "/", "1", "2", "4",
    "A", "B", "C", "D", "E", "F", "G", "H", "I", "J", "K", "L", "M",
    "N", "O", "P", "Q", "R", "S", "T", "U", "V", "W", "X", "Y", "Z",
    "a", "b", "c", "d", "e", "f", "g", "h", "i", "j", "k", "l", "m",
    "n", "o", "p", "q", "r", "s", "t", "u", "v", "w", "x", "y", "z">>

\* ord(c), up to the order of the code points
ord == [c \in {Ascii[i] : i \in DOMAIN Ascii} |->
          CHOOSE i \in DOMAIN Ascii : Ascii[i] = c]

\* chr.lower(): 'A'..'Z' are 26 code points below 'a'..'z'
lower_chr == [c \in DOMAIN ord |->
                IF ord["A"] <= ord[c] /\ ord[c] <= ord["Z"]
                  THEN Ascii[ord[c] + 26]
                  ELSE c]

\* str.lower()
lower(string) == [i \in DOMAIN string |-> lower_chr[string[i]]]

\* str.__lt__: lexicographic by code point
RECURSIVE str_lt(_, _)
str_lt(a, b) ==
  IF b = <<>> THEN FALSE
  ELSE IF a = <<>> THEN TRUE
  ELSE IF a[1] # b[1] THEN ord[a[1]] < ord[b[1]]
  ELSE str_lt(Tail(a), Tail(b))

\* str.startswith
startswith(s, prefix) ==
  /\ Len(prefix) <= Len(s)
  /\ SubSeq(s, 1, Len(prefix)) = prefix

\* str.split(sep) for a one-character sep
RECURSIVE split(_, _)
split(s, sep) ==
  IF \E i \in DOMAIN s : s[i] = sep
    THEN LET i == CHOOSE i \in DOMAIN s :
                    /\ s[i] = sep
                    /\ \A j \in 1..(i - 1) : s[j] # sep
         IN  <<SubSeq(s, 1, i - 1)>> \o split(SubSeq(s, i + 1, Len(s)), sep)
    ELSE <<s>>

\* sep.join(parts)
RECURSIVE join(_, _)
join(parts, sep) ==
  IF parts = <<>> THEN <<>>
  ELSE IF Len(parts) = 1 THEN parts[1]
  ELSE parts[1] \o <<sep>> \o join(Tail(parts), sep)

Last(s) == s[Len(s)]
Front(s) == SubSeq(s, 1, Len(s) - 1)

(***************************************************************************)
(* Names                                                                   *)
(***************************************************************************)
images == <<"i", "m", "a", "g", "e", "s">>
videos == <<"v", "i", "d", "e", "o", "s">>
audio  == <<"a", "u", "d", "i", "o">>

IMG_EXTS == { <<"j", "p", "g">>, <<"j", "p", "e", "g">>, <<"p", "n", "g">>,
              <<"g", "i", "f">>, <<"w", "e", "b", "p">> }
VID_EXTS == { <<"m", "p", "4">>, <<"m", "o", "v">>, <<"a", "v", "i">>,
              <<"m", "k", "v">>, <<"w", "e", "b", "m">> }

dotdot == <<".", ".">>
dot    == <<".">>
srv    == <<"s", "r", "v">>
m      == <<"m">>
m_e    == <<"m", "-", "e">>
ml     == <<"m", "l">>
s      == <<"s">>
A      == <<"A">>
E      == <<"E">>
z      == <<"z">>
lk     == <<"l", "k">>
bad    == <<"b", "a", "d">>
nope   == <<"n", "o", "p", "e">>
png    == <<"p", "n", "g">>
a_jpg  == <<"a", ".", "j", "p", "g">>
B_PNG  == <<"B", ".", "P", "N", "G">>
c_mp4  == <<"c", ".", "m", "p", "4">>
n_txt  == <<"n", ".", "t", "x", "t">>
d_png  == <<"d", ".", "p", "n", "g">>
q_jpg  == <<"q", ".", "j", "p", "g">>
one_JPG == <<"1", ".", "J", "P", "G">>
two_jpg == <<"2", ".", "j", "p", "g">>
v_mov  == <<"v", ".", "m", "o", "v">>
k_webm == <<"k", ".", "w", "e", "b", "m">>
h_gif  == <<"h", ".", "g", "i", "f">>
e_gif  == <<"e", ".", "g", "i", "f">>
t_mkv  == <<"t", ".", "m", "k", "v">>

(***************************************************************************)
(* The filesystem: canonical absolute path (its segments) -> node.  The    *)
(* entries of a directory are in the order os.listdir returns them, which  *)
(* is not sorted.  listdir is the outcome of reading the directory: z is  *)
(* not readable, reading bad fails with an I/O error.                      *)
(***************************************************************************)
Dir(entries) == [kind |-> "dir", entries |-> entries, listdir |-> "ok", target |-> <<>>]
DirErr(entries, e) == [kind |-> "dir", entries |-> entries, listdir |-> e, target |-> <<>>]
File == [kind |-> "file", entries |-> <<>>, listdir |-> "NotADirectoryError", target |-> <<>>]
Fifo == [kind |-> "fifo", entries |-> <<>>, listdir |-> "NotADirectoryError", target |-> <<>>]
Link(target) == [kind |-> "link", entries |-> <<>>, listdir |-> "ok", target |-> target]

FS ==
     (<<>>                     :> Dir(<<srv>>))
  @@ (<<srv>>                  :> Dir(<<s, m_e, ml, m>>))
  @@ (<<srv, m>>               :> Dir(<<c_mp4, z, B_PNG, A, n_txt, a_jpg, lk, E>>))
  @@ (<<srv, m, c_mp4>>        :> File)
  @@ (<<srv, m, B_PNG>>        :> File)
  @@ (<<srv, m, n_txt>>        :> File)
  @@ (<<srv, m, a_jpg>>        :> File)
  @@ (<<srv, m, A>>            :> Dir(<<png, two_jpg, d_png, q_jpg, one_JPG, v_mov>>))
  @@ (<<srv, m, A, png>>       :> File)
  @@ (<<srv, m, A, two_jpg>>   :> File)
  @@ (<<srv, m, A, one_JPG>>   :> File)
  @@ (<<srv, m, A, v_mov>>     :> File)
  @@ (<<srv, m, A, q_jpg>>     :> Fifo)
  @@ (<<srv, m, A, d_png>>     :> Dir(<<k_webm>>))
  @@ (<<srv, m, A, d_png, k_webm>> :> File)
  @@ (<<srv, m, z>>            :> DirErr(<<h_gif>>, "PermissionError"))
  @@ (<<srv, m, z, h_gif>>     :> File)
  @@ (<<srv, m, E>>            :> Dir(<<h_gif, bad, e_gif, B_PNG>>))
  @@ (<<srv, m, E, e_gif>>     :> File)
  @@ (<<srv, m, E, h_gif>>     :> File)
  @@ (<<srv, m, E, B_PNG>>     :> File)
  @@ (<<srv, m, E, bad>>       :> DirErr(<<>>, "OSError"))
  @@ (<<srv, m, lk>>           :> Link(<<srv, s>>))
  @@ (<<srv, m_e>>             :> Dir(<<a_jpg>>))
  @@ (<<srv, m_e, a_jpg>>      :> File)
  @@ (<<srv, s>>               :> Dir(<<t_mkv, a_jpg>>))
  @@ (<<srv, s, a_jpg>>        :> File)
  @@ (<<srv, s, t_mkv>>        :> File)
  @@ (<<srv, ml>>              :> Link(<<srv, m>>))


(***************************************************************************)
(* pathlib.  A Path is the sequence of its segments below the anchor "/";  *)
(* every path of the model is absolute, MEDIA_ROOT being so.               *)
(***************************************************************************)
\* Path(string): empty and '.' segments are dropped, '..' is kept
Path(string) ==
  SelectSeq(split(string, "/"), LAMBDA seg : seg # <<>> /\ seg # dot)

\* Path.__truediv__: an absolute right operand replaces the left one
truediv(path, string) ==
  IF string # <<>> /\ string[1] = "/"
    THEN Path(string)
    ELSE path \o Path(string)

\* str(path)
str(path) == <<"/">> \o join(path, "/")

\* path.name
name(path) == IF path = <<>> THEN <<>> ELSE Last(path)

\* Path.__lt__: the segments compared in order, each as a str
RECURSIVE path_lt(_, _)
path_lt(a, b) ==
  IF b = <<>> THEN FALSE
  ELSE IF a = <<>> THEN TRUE
  ELSE IF a[1] # b[1] THEN str_lt(a[1], b[1])
  ELSE path_lt(Tail(a), Tail(b))

\* sorted(paths): insertion sort, stable
RECURSIVE insert(_, _)
insert(path, done) ==
  IF done = <<>> THEN <<path>>
  ELSE IF path_lt(path, done[1]) THEN <<path>> \o done
  ELSE <<done[1]>> \o insert(path, Tail(done))

RECURSIVE sorted(_)
sorted(paths) ==
  IF paths = <<>> THEN <<>>
  ELSE insert(Last(paths), sorted(Front(paths)))

(***************************************************************************)
(* The operating system's view of a path: every segment is looked up in    *)
(* the directory reached so far, symbolic links are followed and '..' is   *)
(* the parent of the directory reached.                                    *)
(***************************************************************************)
Missing == [ok |-> FALSE, at |-> <<>>]

RECURSIVE walk(_, _)
walk(cur, rest) ==
  IF rest = <<>> THEN [ok |-> TRUE, at |-> cur]
  ELSE IF FS[cur].kind # "dir" THEN Missing
  ELSE IF Head(rest) = dotdot
    THEN walk(IF cur = <<>> THEN cur ELSE Front(cur), Tail(rest))
  ELSE LET nxt == Append(cur, Head(rest))
       IN  IF nxt \notin DOMAIN FS THEN Missing
           ELSE IF FS[nxt].kind = "link" THEN walk(FS[nxt].target, Tail(rest))
           ELSE walk(nxt, Tail(rest))

stat(path) == walk(<<>>, path)

\* Path.exists, Path.is_dir, Path.is_file: a missing path is False, not an error
exists(path) == stat(path).ok
is_dir(path) == stat(path).ok /\ FS[stat(path).at].kind = "dir"

\* Path.is_file, were everything that is no directory a file
is_file_not_dir(path) == stat(path).ok /\ FS[stat(path).at].kind # "dir"

is_file(path) == stat(path).ok /\ FS[stat(path).at].kind = "file"

\* Path.iterdir: the children in os.listdir order, or the exception raised
iterdir(path) ==
  LET st == stat(path)
  IN  IF ~st.ok THEN [exc |-> "FileNotFoundError", val |-> <<>>]
      ELSE IF FS[st.at].listdir # "ok" THEN [exc |-> FS[st.at].listdir, val |-> <<>>]
      ELSE [exc |-> "none",
            val |-> [i \in DOMAIN FS[st.at].entries |-> Append(path, FS[st.at].entries[i])]]

\* Path.resolve (os.path.realpath, not strict): '..' drops the last segment
\* of what is resolved so far, a symbolic link is replaced by its target, a
\* segment that does not exist is kept
RECURSIVE realpath(_, _)
realpath(cur, rest) ==
  IF rest = <<>> THEN cur
  ELSE IF Head(rest) = dotdot
    THEN realpath(IF cur = <<>> THEN cur ELSE Front(cur), Tail(rest))
  ELSE LET nxt == Append(cur, Head(rest))
       IN  IF nxt \in DOMAIN FS /\ FS[nxt].kind = "link"
             THEN realpath(FS[nxt].target, Tail(rest))
             ELSE realpath(nxt, Tail(rest))

resolve(path) == realpath(<<>>, path)

(***************************************************************************)
(* src/main.py                                                             *)
(***************************************************************************)
HTTPException(status_code, detail) ==
  [status |-> status_code, body |-> [detail |-> detail]]

\* get_media_root: the root as a Path, or the HTTPException raised
get_media_root ==
  IF MEDIA_ROOT = None
    THEN [exc |-> "HTTPException", val |-> <<>>]
    ELSE [exc |-> "none", val |-> Path(MEDIA_ROOT)]

NotConfigured == HTTPException(500, "Media root not configured")

\* the extension in the case the name is written in
ext_of_as_written(filename) == Last(split(filename, "."))

\* "ext = filename.lower().split('.')[-1]"
ext_of(filename) == Last(split(lower(filename), "."))

\* is_media_file, were media_type ignored
is_media_file_unfiltered(filename, media_type) ==
  ext_of(filename) \in IMG_EXTS \/ ext_of(filename) \in VID_EXTS

is_media_file(filename, media_type) ==
  LET ext == ext_of(filename)
  IN  IF media_type = images THEN ext \in IMG_EXTS
      ELSE IF media_type = videos THEN ext \in VID_EXTS
      ELSE ext \in IMG_EXTS \/ ext \in VID_EXTS

get_media_type(filename) ==
  LET ext == ext_of(filename)
  IN  IF ext \in IMG_EXTS THEN images
      ELSE IF ext \in VID_EXTS THEN videos
      ELSE None

\* relative_to_media_root: Path.relative_to compares segments, without
\* resolving anything; a path not below the root is returned whole
relative_to_media_root(path) ==
  LET media_root == get_media_root.val
  IN  IF Len(media_root) <= Len(path) /\ SubSeq(path, 1, Len(media_root)) = media_root
        THEN IF Len(path) = Len(media_root)
               THEN dot
               ELSE join(SubSeq(path, Len(media_root) + 1, Len(path)), "/")
        ELSE str(path)

(***************************************************************************)
(* What clients send                                                       *)
(***************************************************************************)
SeqsUpTo(S, n) == UNION { [1..k -> S] : k \in 0..n }

\* segments of the relative paths, and of the absolute ones
Segments == {dotdot, dot, A, m_e, a_jpg, nope, lk, z, E}
AbsSegments == {srv, m, m_e, a_jpg}

Paths ==
  { join(segs, "/") : segs \in SeqsUpTo(Segments, MaxSegs) }
    \cup { <<"/">> \o join(segs, "/") : segs \in SeqsUpTo(AbsSegments, MaxSegs) }

\* --media-root, or the MEDIA_ROOT environment variable; ml is a symbolic
\* link to m
Roots == { str(<<srv, m>>), str(<<srv, ml>>) }

\* media_type as clients send it: the two categories, and values that are
\* none; the route /slideshow/{media_type} matches no empty media_type
MediaTypes == {images, videos, audio, <<>>}

NoFault == [dir |-> <<>>, at |-> 0, exc |-> "none"]

Request(endpoint, path, media_type, randomize, fault) ==
  [endpoint |-> endpoint, path |-> path, media_type |-> media_type,
   randomize |-> randomize, fault |-> fault]

(***************************************************************************)
(* /media/{file_path:path}                                                 *)
(***************************************************************************)
CONTENT_TYPES ==
     (<<"j", "p", "g">>      :> "image/jpeg")
  @@ (<<"j", "p", "e", "g">> :> "image/jpeg")
  @@ (<<"p", "n", "g">>      :> "image/png")
  @@ (<<"g", "i", "f">>      :> "image/gif")
  @@ (<<"w", "e", "b", "p">> :> "image/webp")
  @@ (<<"m", "p", "4">>      :> "video/mp4")
  @@ (<<"m", "o", "v">>      :> "video/quicktime")
  @@ (<<"a", "v", "i">>      :> "video/x-msvideo")
  @@ (<<"m", "k", "v">>      :> "video/x-matroska")
  @@ (<<"w", "e", "b", "m">> :> "video/webm")

content_type_of(file_path) ==
  LET ext == Last(split(lower(file_path), "."))
  IN  IF ext \in DOMAIN CONTENT_TYPES
        THEN CONTENT_TYPES[ext]
        ELSE "application/octet-stream"

\* the security check of serve_media, on the two resolved paths
within_media_root(file_path_obj, media_root_resolved) ==
  startswith(str(file_path_obj), str(media_root_resolved))

serve_media_response(file_path) ==
  IF get_media_root.exc # "none" THEN NotConfigured
  ELSE
    LET media_root == get_media_root.val
        file_path_obj == resolve(truediv(media_root, file_path))
        media_root_resolved == resolve(media_root)
    IN  IF ~within_media_root(file_path_obj, media_root_resolved)
          THEN HTTPException(403, "Access denied")
        ELSE IF ~exists(file_path_obj)
          THEN HTTPException(404, "File not found")
        ELSE IF ~is_file(file_path_obj)
          THEN HTTPException(400, "Not a file")
        ELSE [status |-> 200,
              body |-> [file |-> stat(file_path_obj).at,
                        content_type |-> content_type_of(file_path)]]

serve_media(file_path) ==
  /\ pc = "serving"
  /\ pc' = "handled"
  /\ request' = Request("serve_media", file_path, None, FALSE, NoFault)
  /\ response' = serve_media_response(file_path)
  /\ UNCHANGED <<MEDIA_ROOT, random_state, kept>>

(***************************************************************************)
(* /api/directories                                                        *)
(***************************************************************************)
\* "if path: target_dir = media_root / path, else: target_dir = media_root"
target_dir_of(media_root, path) ==
  IF path # None /\ path # <<>>
    THEN truediv(media_root, path)
    ELSE media_root

\* the two checks of directory_check, is_dir() first
directory_check_dir_first(target_dir) ==
  IF ~is_dir(target_dir) THEN 400
  ELSE IF ~exists(target_dir) THEN 404
  ELSE 0

\* The two checks of target_dir in list_directories and list_media: the
\* status of the HTTPException raised, 0 when none is
directory_check(target_dir) ==
  IF ~exists(target_dir) THEN 404
  ELSE IF ~is_dir(target_dir) THEN 400
  ELSE 0

\* "path or ''"
path_or_empty(path) == IF path = None THEN <<>> ELSE path

\* The inner loop of list_directories over item.iterdir(), from the i-th
\* sub_item on.  stop_at, when not 0, is the sub_item whose is_file() fails
\* with the exception exc (the permissions changing under the enumeration).
RECURSIVE count_loop(_, _, _, _, _)
count_loop(sub_items, i, stop_at, exc, acc) ==
  IF i > Len(sub_items) THEN acc
  ELSE IF i = stop_at THEN [acc EXCEPT !.exc = exc]
  ELSE IF is_file(sub_items[i]) /\ is_media_file(name(sub_items[i]), None)
    THEN IF get_media_type(name(sub_items[i])) = images
           THEN count_loop(sub_items, i + 1, stop_at, exc,
                           [acc EXCEPT !.img_count = @ + 1])
           ELSE count_loop(sub_items, i + 1, stop_at, exc,
                           [acc EXCEPT !.vid_count = @ + 1])
  ELSE count_loop(sub_items, i + 1, stop_at, exc, acc)

\* "Count media in subdirectory": the counts when the exception is raised,
\* and the exception
count_media(item, fault) ==
  LET it == iterdir(item)
      zero == [exc |-> "none", img_count |-> 0, vid_count |-> 0]
  IN  IF it.exc # "none"
        THEN [zero EXCEPT !.exc = it.exc]
        ELSE count_loop(it.val, 1,
                        IF fault.dir = name(item) THEN fault.at ELSE 0,
                        fault.exc, zero)

\* "except PermissionError: pass"
swallowed(exc) == exc = "PermissionError"

\* The loop of list_directories over sorted(target_dir.iterdir())
RECURSIVE list_directories_loop(_, _, _)
list_directories_loop(items, fault, acc) ==
  IF items = <<>> THEN acc
  ELSE
    LET item == Head(items)
    IN  IF is_dir(item)
          THEN LET c == count_media(item, fault)
               IN  IF c.exc # "none" /\ ~swallowed(c.exc)
                     THEN [acc EXCEPT !.exc = c.exc]
                     ELSE list_directories_loop(Tail(items), fault,
                            [acc EXCEPT !.directories =
                               Append(@, [name |-> name(item),
                                          path |-> relative_to_media_root(item),
                                          image_count |-> c.img_count,
                                          video_count |-> c.vid_count])])
        ELSE IF is_file(item) /\ is_media_file(name(item), None)
          THEN IF get_media_type(name(item)) = images
                 THEN list_directories_loop(Tail(items), fault,
                        [acc EXCEPT !.image_count = @ + 1])
                 ELSE list_directories_loop(Tail(items), fault,
                        [acc EXCEPT !.video_count = @ + 1])
        ELSE list_directories_loop(Tail(items), fault, acc)

\* the order os.listdir gives
listing_order_of_listdir(paths) == paths

\* the order, were it sorted only until the random generator has been used
listing_order_by_random_state(paths) ==
  IF random_state = 0 THEN sorted(paths) ELSE paths

\* the order in which a handler walks a directory: sorted(target_dir.iterdir())
listing_order(paths) == sorted(paths)

list_directories_response(path, fault) ==
  IF get_media_root.exc # "none" THEN NotConfigured
  ELSE
    LET media_root == get_media_root.val
        target_dir == target_dir_of(media_root, path)
    IN  IF directory_check(target_dir) # 0
          THEN HTTPException(directory_check(target_dir), "no directory")
        ELSE
          LET it == iterdir(target_dir)
              r == list_directories_loop(listing_order(it.val), fault,
                     [exc |-> "none", directories |-> <<>>,
                      image_count |-> 0, video_count |-> 0])
          IN  IF it.exc # "none" THEN HTTPException(500, it.exc)
              ELSE IF r.exc # "none" THEN HTTPException(500, r.exc)
              ELSE [status |-> 200,
                    body |-> [path |-> path_or_empty(path),
                              directories |-> r.directories,
                              image_count |-> r.image_count,
                              video_count |-> r.video_count]]

\* the failures that can strike while the subdirectories of the requested
\* directory are counted: is_file() of the at-th entry of subdirectory dir
\* raises exc
Faults(path) ==
  IF get_media_root.exc # "none" THEN {}
  ELSE
    LET it == iterdir(target_dir_of(get_media_root.val, path))
    IN  IF it.exc # "none" THEN {}
        ELSE UNION { { [dir |-> name(item), at |-> k, exc |-> e] :
                         k \in 1..Len(iterdir(item).val),
                         e \in {"PermissionError", "OSError"} } :
                     item \in { it.val[j] : j \in DOMAIN it.val } }

list_directories(path, fault) ==
  /\ pc = "serving"
  /\ pc' = "handled"
  /\ request' = Request("list_directories", path, None, FALSE, fault)
  /\ response' = list_directories_response(path, fault)
  /\ UNCHANGED <<MEDIA_ROOT, random_state, kept>>

(***************************************************************************)
(* /api/media                                                              *)
(***************************************************************************)
MediaEntry(item) == [name |-> name(item), path |-> relative_to_media_root(item)]

\* The loop of list_media over sorted(target_dir.iterdir())
RECURSIVE list_media_loop(_, _, _)
list_media_loop(items, media_type, acc) ==
  IF items = <<>> THEN acc
  ELSE
    LET item == Head(items)
        media_t == get_media_type(name(item))
    IN  IF is_file(item) /\ is_media_file(name(item), media_type)
          THEN IF media_t = images
                 THEN list_media_loop(Tail(items), media_type,
                        [acc EXCEPT !.images = Append(@, MediaEntry(item))])
               ELSE IF media_t = videos
                 THEN list_media_loop(Tail(items), media_type,
                        [acc EXCEPT !.videos = Append(@, MediaEntry(item))])
               ELSE list_media_loop(Tail(items), media_type, acc)
          ELSE list_media_loop(Tail(items), media_type, acc)

list_media_response(path, media_type) ==
  IF get_media_root.exc # "none" THEN NotConfigured
  ELSE
    LET media_root == get_media_root.val
        target_dir == target_dir_of(media_root, path)
    IN  IF directory_check(target_dir) # 0
          THEN HTTPException(directory_check(target_dir), "no directory")
        ELSE
          LET it == iterdir(target_dir)
              r == list_media_loop(listing_order(it.val), media_type,
                                   [images |-> <<>>, videos |-> <<>>])
          IN  IF it.exc # "none" THEN HTTPException(500, it.exc)
              ELSE [status |-> 200,
                    body |-> [path |-> path_or_empty(path),
                              images |-> r.images,
                              videos |-> r.videos]]

list_media(path, media_type) ==
  /\ pc = "serving"
  /\ pc' = "handled"
  /\ request' = Request("list_media", path, media_type, FALSE, NoFault)
  /\ response' = list_media_response(path, media_type)
  /\ UNCHANGED <<MEDIA_ROOT, random_state, kept>>

(***************************************************************************)
(* /slideshow/{media_type}                                                 *)
(***************************************************************************)
\* The loop of generate_slideshow_html over sorted(target_dir.iterdir())
RECURSIVE slideshow_loop(_, _, _)
slideshow_loop(items, media_type, media_files) ==
  IF items = <<>> THEN media_files
  ELSE IF is_file(Head(items)) /\ is_media_file(name(Head(items)), media_type)
    THEN slideshow_loop(Tail(items), media_type,
                        Append(media_files, MediaEntry(Head(items))))
  ELSE slideshow_loop(Tail(items), media_type, media_files)

\* random.shuffle draws one number for every position but the first
draws(list) == IF Len(list) >= 2 THEN Len(list) - 1 ELSE 0

\* the rotations of the list
rotations(list) ==
  { [i \in DOMAIN list |-> list[((i + k) % Len(list)) + 1]] : k \in DOMAIN list }

\* random.shuffle: every order of the list
shuffles(list) ==
  { [i \in DOMAIN list |-> list[order[i]]] :
      order \in { f \in [DOMAIN list -> DOMAIN list] :
                    \A i, j \in DOMAIN list : f[i] = f[j] => i = j } }

Page(kind, media_files, detail) ==
  [kind |-> kind, media_files |-> media_files, detail |-> detail]

\* generate_slideshow_html: the pages it can return.  "except Exception"
\* also catches the HTTPException of get_media_root.
generate_slideshow_html(media_type, path, randomize) ==
  IF get_media_root.exc # "none"
    THEN { Page("error", <<>>, "Media root not configured") }
  ELSE
    LET media_root == get_media_root.val
        target_dir == target_dir_of(media_root, path)
        it == iterdir(target_dir)
        media_files == slideshow_loop(listing_order(it.val), media_type, <<>>)
    IN  IF ~exists(target_dir)
          THEN { Page("not found", <<>>, "Directory not found") }
        ELSE IF it.exc # "none"
          THEN { Page("error", <<>>, it.exc) }
        ELSE IF randomize
          THEN { Page("slideshow", list, "") : list \in shuffles(media_files) }
        ELSE { Page("slideshow", media_files, "") }

\* slideshow_page, were a failure of generate_slideshow_html raised
slideshow_page_responses_raising(media_type, path, randomize) ==
  IF media_type \notin {images, videos}
    THEN { HTTPException(404, "Invalid media type") }
    ELSE { IF html_content.kind = "error"
             THEN HTTPException(500, html_content.detail)
             ELSE [status |-> 200, body |-> html_content] :
             html_content \in generate_slideshow_html(media_type,
                                                      path_or_empty(path), randomize) }

\* slideshow_page: the responses it can give
slideshow_page_responses(media_type, path, randomize) ==
  IF media_type \notin {images, videos}
    THEN { HTTPException(404, "Invalid media type") }
    ELSE { [status |-> 200, body |-> html_content] :
             html_content \in generate_slideshow_html(media_type,
                                                      path_or_empty(path), randomize) }

slideshow_page(media_type, path, randomize) ==
  /\ pc = "serving"
  /\ pc' = "handled"
  /\ request' = Request("slideshow_page", path, media_type, randomize, NoFault)
  /\ response' \in slideshow_page_responses(media_type, path, randomize)
  /\ random_state' = IF randomize /\ response'.status = 200
                          /\ response'.body.kind = "slideshow"
                       THEN (random_state + draws(response'.body.media_files)) % Period
                       ELSE random_state
  /\ UNCHANGED <<MEDIA_ROOT, kept>>

(***************************************************************************)
(* The process.  The module is either run as a script, and main() sets     *)
(* MEDIA_ROOT before uvicorn.run serves, or imported by an ASGI server,    *)
(* which serves app with MEDIA_ROOT as the module left it.  The handlers   *)
(* are coroutines without an await: the event loop runs each one whole,    *)
(* one after the other.  request and response are the request being        *)
(* handled and its response, until the response is sent.                   *)
(***************************************************************************)
NoRequest == Request("none", None, None, FALSE, NoFault)
NoResponse == [status |-> 0, body |-> [detail |-> ""]]
NotKept == [request |-> NoRequest, response |-> NoResponse]

Init ==
  /\ MEDIA_ROOT = None
  /\ pc \in {"main", "serving"}
  /\ request = NoRequest
  /\ response = NoResponse
  /\ random_state = 0
  /\ kept = NotKept

\* main(): parser.error exits the process when no root is given
main(media_root) ==
  /\ pc = "main"
  /\ IF media_root = None \/ media_root = <<>>
       THEN pc' = "exited" /\ UNCHANGED MEDIA_ROOT
       ELSE pc' = "serving" /\ MEDIA_ROOT' = media_root
  /\ UNCHANGED <<request, response, random_state, kept>>

\* the response is sent and the server waits for the next request
send ==
  /\ pc = "handled"
  /\ pc' = "serving"
  /\ request' = NoRequest
  /\ response' = NoResponse
  /\ UNCHANGED <<MEDIA_ROOT, random_state, kept>>

\* a request is routed to its handler only while the server is serving
Next ==
  \/ \E media_root \in Roots \cup {None, <<>>} : main(media_root)
  \/ /\ pc = "serving"
     /\ \E path \in Paths \cup {None} :
          \E fault \in Faults(path) \cup {NoFault} : list_directories(path, fault)
  \/ /\ pc = "serving"
     /\ \E path \in Paths \cup {None}, media_type \in MediaTypes \cup {None} :
          list_media(path, media_type)
  \/ /\ pc = "serving"
     /\ \E media_type \in MediaTypes \ {<<>>}, path \in Paths \cup {None},
           randomize \in BOOLEAN :
          slideshow_page(media_type, path, randomize)
  \/ /\ pc = "serving"
     /\ \E file_path \in Paths : serve_media(file_path)
  \/ send

Spec == Init /\ [][Next]_vars

(***************************************************************************)
(* The vocabulary of the claims                                            *)
(***************************************************************************)
Configured == MEDIA_ROOT # None

FsEndpoints == {"list_directories", "list_media", "slideshow_page", "serve_media"}
ListEndpoints == {"list_directories", "list_media"}

Range(seq) == { seq[i] : i \in DOMAIN seq }

\* the canonical root, and the canonical join of the root and the client's path
CanonicalRoot == resolve(Path(MEDIA_ROOT))
CanonicalTarget == resolve(truediv(Path(MEDIA_ROOT), path_or_empty(request.path)))

\* path is root or a descendant of root, segment by segment
Under(path, root) ==
  /\ Len(root) <= Len(path)
  /\ \A i \in DOMAIN root : path[i] = root[i]

Escapes == Configured /\ ~Under(CanonicalTarget, CanonicalRoot)

\* the canonical target has the canonical root as a string prefix without
\* being under it
PrefixCollision ==
  /\ Escapes
  /\ startswith(str(CanonicalTarget), str(CanonicalRoot))

\* the directory the client's path denotes, as the operating system sees it
Target == truediv(Path(MEDIA_ROOT), path_or_empty(request.path))

\* the names a listing response holds
Names(entries) == { entries[i].name : i \in DOMAIN entries }

ListedNames ==
  IF request.endpoint = "list_directories"
    THEN Names(response.body.directories)
    ELSE Names(response.body.images) \cup Names(response.body.videos)

\* C1: on every filesystem-serving endpoint a path whose canonical join with
\* the root is neither the root nor a descendant of it is answered 403.
C1_EscapeDeniedEverywhere ==
  (request.endpoint \in FsEndpoints /\ Escapes) => response.status = 403

\* C2: /media/{filePath} answers 403, and serves nothing, when the canonical
\* target merely has the canonical root as a string prefix.
C2_PrefixCollisionDenied ==
  (request.endpoint = "serve_media" /\ PrefixCollision) => response.status = 403

\* C3: with the root configured, /media/{filePath} answers 403 for an escaping
\* path, else 404 for a missing one, else 400 for what is no regular file,
\* else 200, in that order.
C3_ServeMediaOutcome ==
  (request.endpoint = "serve_media" /\ Configured) =>
     response.status =
       IF Escapes THEN 403
       ELSE IF ~exists(CanonicalTarget) THEN 404
       ELSE IF FS[stat(CanonicalTarget).at].kind # "file" THEN 400
       ELSE 200

\* C4: /api/directories and /api/media answer 404 for a path that does not
\* exist and 400 for one that is no directory; a listing is produced only for
\* an existing directory, and an empty or absent path is the root itself.
C4_ListingStatus ==
  (request.endpoint \in ListEndpoints /\ Configured) =>
     /\ ~stat(Target).ok => response.status = 404
     /\ (stat(Target).ok /\ FS[stat(Target).at].kind # "dir") => response.status = 400
     /\ response.status = 200 =>
          /\ stat(Target).ok
          /\ FS[stat(Target).at].kind = "dir"
          /\ ListedNames \subseteq Range(FS[stat(Target).at].entries)
     /\ (request.path \in {None, <<>>} /\ response.status = 200) =>
          /\ response.body.path = <<>>
          /\ ListedNames \subseteq Range(FS[stat(Path(MEDIA_ROOT)).at].entries)

\* a path that exists and is a file was answered 400 by a listing endpoint
C4_Witness ==
  /\ request.endpoint \in ListEndpoints
  /\ Configured
  /\ stat(Target).ok
  /\ FS[stat(Target).at].kind = "file"
  /\ response.status = 400

\* C5: while the root is not configured no filesystem-serving endpoint answers
\* with a success status.
C5_NoSuccessUnconfigured ==
  (request.endpoint \in FsEndpoints /\ ~Configured) =>
     response.status \notin 200..299

(***************************************************************************)
(* The listings, as the specification describes them                       *)
(***************************************************************************)
ImageExtensions == { <<"j", "p", "g">>, <<"j", "p", "e", "g">>, <<"p", "n", "g">>,
                     <<"g", "i", "f">>, <<"w", "e", "b", "p">> }
VideoExtensions == { <<"m", "p", "4">>, <<"m", "o", "v">>, <<"a", "v", "i">>,
                     <<"m", "k", "v">>, <<"w", "e", "b", "m">> }

\* the substring after the last '.', the whole string when it has none
AfterLastDot(string) ==
  LET dots == { i \in DOMAIN string : string[i] = "." }
  IN  IF dots = {} THEN string
      ELSE SubSeq(string, (CHOOSE i \in dots : \A j \in dots : j <= i) + 1, Len(string))

Category(filename) ==
  IF AfterLastDot(lower(filename)) \in ImageExtensions THEN images
  ELSE IF AfterLastDot(lower(filename)) \in VideoExtensions THEN videos
  ELSE None

\* the node a child of directory dir is, a symbolic link being what it points to
Child(dir, child) ==
  IF FS[Append(dir, child)].kind = "link"
    THEN FS[FS[Append(dir, child)].target]
    ELSE FS[Append(dir, child)]

ChildPath(dir, child) ==
  IF FS[Append(dir, child)].kind = "link"
    THEN FS[Append(dir, child)].target
    ELSE Append(dir, child)

Subdirectories(dir) ==
  { child \in Range(FS[dir].entries) : Child(dir, child).kind = "dir" }

\* the regular files directly inside dir that are classified category
Files(dir, category) ==
  { child \in Range(FS[dir].entries) :
      Child(dir, child).kind = "file" /\ Category(child) = category }

\* the directory a successful listing is of
Listed == stat(Target).at

\* enumerating subdirectory child hit a permission failure, or another failure
PermissionFailed(child) ==
  \/ Child(Listed, child).listdir = "PermissionError"
  \/ request.fault.dir = child /\ request.fault.exc = "PermissionError"

OtherFailed(child) ==
  \/ Child(Listed, child).listdir = "OSError"
  \/ request.fault.dir = child /\ request.fault.exc = "OSError"

ListedDirectories ==
  request.endpoint = "list_directories" /\ response.status = 200

CountsOf(entry) == <<entry.image_count, entry.video_count>>

DirectCounts(dir) == <<Cardinality(Files(dir, images)), Cardinality(Files(dir, videos))>>

\* C6, as claimed: one entry per direct subdirectory, the counts of every
\* entry those of the classified regular files directly inside it, the
\* top-level counts those of the files directly inside the listed directory.
C6_CountsOfEverySubdirectory ==
  ListedDirectories =>
    LET directories == response.body.directories
    IN  /\ Names(directories) = Subdirectories(Listed)
        /\ Len(directories) = Cardinality(Subdirectories(Listed))
        /\ \A i \in DOMAIN directories :
             CountsOf(directories[i]) = DirectCounts(ChildPath(Listed, directories[i].name))
        /\ CountsOf(response.body) = DirectCounts(Listed)

\* C6, amended: the same, the counts of an entry being those of its files for
\* every subdirectory whose enumeration hit no permission failure.
C6_CountsOfReadableSubdirectories ==
  ListedDirectories =>
    LET directories == response.body.directories
    IN  /\ Names(directories) = Subdirectories(Listed)
        /\ Len(directories) = Cardinality(Subdirectories(Listed))
        /\ \A i \in DOMAIN directories :
             ~PermissionFailed(directories[i].name) =>
               CountsOf(directories[i]) = DirectCounts(ChildPath(Listed, directories[i].name))
        /\ CountsOf(response.body) = DirectCounts(Listed)

\* the root is listed while nothing fails under it: A holds three images and a
\* video next to a fifo, a directory with a media name and a deeper video
C6_Witness ==
  /\ ListedDirectories
  /\ request.fault = NoFault
  /\ Listed = <<srv, m>>
  /\ \E i \in DOMAIN response.body.directories :
       /\ response.body.directories[i].name = A
       /\ CountsOf(response.body.directories[i]) = <<3, 1>>
  /\ CountsOf(response.body) = <<2, 1>>

\* C7: a permission failure of an inner enumeration leaves the subdirectory
\* listed with both counts 0 and the listing succeeds; any other failure of
\* an inner enumeration makes the request fail with 500.
C7_PermissionFailureZeroCounts ==
  ( /\ request.endpoint = "list_directories"
    /\ Configured
    /\ stat(Target).ok
    /\ FS[Listed].kind = "dir"
    /\ FS[Listed].listdir = "ok" ) =>
      IF \E child \in Subdirectories(Listed) : OtherFailed(child)
        THEN response.status = 500
        ELSE /\ response.status = 200
             /\ \A child \in Subdirectories(Listed) :
                  PermissionFailed(child) =>
                    \E i \in DOMAIN response.body.directories :
                      /\ response.body.directories[i].name = child
                      /\ CountsOf(response.body.directories[i]) = <<0, 0>>

ListedMedia ==
  request.endpoint = "list_media" /\ response.status = 200

\* entries holds exactly the files of names, each once
Exactly(entries, names) ==
  Names(entries) = names /\ Len(entries) = Cardinality(names)

\* C8, as claimed: without media_type both sequences hold exactly the files
\* of their category; with a media_type, whatever it is, only the matching
\* category is populated.
C8_AnyMediaTypeFilters ==
  ListedMedia =>
    IF request.media_type = None
      THEN /\ Exactly(response.body.images, Files(Listed, images))
           /\ Exactly(response.body.videos, Files(Listed, videos))
      ELSE /\ Exactly(response.body.images,
                      IF request.media_type = images THEN Files(Listed, images) ELSE {})
           /\ Exactly(response.body.videos,
                      IF request.media_type = videos THEN Files(Listed, videos) ELSE {})

\* C8, amended: only the media_type values 'images' and 'videos' filter; any
\* other value is as no media_type.
C8_MediaTypeFilters ==
  ListedMedia =>
    /\ Exactly(response.body.images,
               IF request.media_type = videos THEN {} ELSE Files(Listed, images))
    /\ Exactly(response.body.videos,
               IF request.media_type = images THEN {} ELSE Files(Listed, videos))

\* images are asked of a directory that holds videos too
C8_Witness ==
  /\ ListedMedia
  /\ request.media_type = images
  /\ Files(Listed, videos) # {}
  /\ response.body.videos = <<>>
  /\ Len(response.body.images) >= 2

\* a is before b in the order of the code points
NameBefore(a, b) ==
  \E k \in 1..Len(b) :
    /\ k - 1 <= Len(a)
    /\ \A j \in 1..(k - 1) : a[j] = b[j]
    /\ \/ k = Len(a) + 1
       \/ k <= Len(a) /\ ord[a[k]] < ord[b[k]]

Ascending(entries) ==
  \A i, j \in DOMAIN entries : i < j => NameBefore(entries[i].name, entries[j].name)

\* C9: the directories of /api/directories, the images and the videos of
\* /api/media and the slideshow sequence without randomize are in strictly
\* ascending order of name.
C9_SequencesAscending ==
  /\ ListedDirectories => Ascending(response.body.directories)
  /\ ListedMedia =>
       Ascending(response.body.images) /\ Ascending(response.body.videos)
  /\ ( /\ request.endpoint = "slideshow_page"
       /\ response.status = 200
       /\ ~request.randomize ) => Ascending(response.body.media_files)

\* a directory whose os.listdir order is not the sorted one is listed
C9_Witness ==
  /\ ListedDirectories
  /\ Len(response.body.directories) >= 4
  /\ ~Ascending([i \in DOMAIN FS[Listed].entries |-> [name |-> FS[Listed].entries[i]]])

(***************************************************************************)
(* The classifier on its own: is_media_file and get_media_type applied to  *)
(* a filename and a filter.                                                *)
(***************************************************************************)
Components ==
  ImageExtensions \cup VideoExtensions
    \cup { <<"J", "P", "G">>, <<"J", "p", "e", "g">>, <<"W", "e", "b", "M">>,
           <<"a">>, <<"t", "x", "t">>, <<>> }

Filenames == { join(comps, ".") : comps \in SeqsUpTo(Components, MaxComps) }

Filters == {None, images, videos, audio}

ClassifyInit ==
  /\ MEDIA_ROOT = None
  /\ pc = "classify"
  /\ request \in { Request("classify", filename, media_type, FALSE, NoFault) :
                     filename \in Filenames, media_type \in Filters }
  /\ response = NoResponse
  /\ random_state = 0
  /\ kept = NotKept

classify ==
  /\ pc = "classify"
  /\ pc' = "classified"
  /\ response' = [status |-> 0,
                  body |-> [is_media_file |-> is_media_file(request.path, request.media_type),
                            get_media_type |-> get_media_type(request.path)]]
  /\ UNCHANGED <<MEDIA_ROOT, request, random_state, kept>>

ClassifyNext == classify

ClassifySpec == ClassifyInit /\ [][ClassifyNext]_vars

ContentTypeTable ==
     (<<"j", "p", "g">>      :> "image/jpeg")
  @@ (<<"j", "p", "e", "g">> :> "image/jpeg")
  @@ (<<"p", "n", "g">>      :> "image/png")
  @@ (<<"g", "i", "f">>      :> "image/gif")
  @@ (<<"w", "e", "b", "p">> :> "image/webp")
  @@ (<<"m", "p", "4">>      :> "video/mp4")
  @@ (<<"m", "o", "v">>      :> "video/quicktime")
  @@ (<<"a", "v", "i">>      :> "video/x-msvideo")
  @@ (<<"m", "k", "v">>      :> "video/x-matroska")
  @@ (<<"w", "e", "b", "m">> :> "video/webm")

HasExtension(filename) == \E i \in DOMAIN filename : filename[i] = "."

\* the content type the table gives a file of that name
TableContentType(filename) ==
  IF HasExtension(filename) /\ AfterLastDot(lower(filename)) \in DOMAIN ContentTypeTable
    THEN ContentTypeTable[AfterLastDot(lower(filename))]
    ELSE "application/octet-stream"

Served == request.endpoint = "serve_media" /\ response.status = 200

\* the name of the file a successful /media/ response serves
ServedName == Last(response.body.file)

\* C11: every file /media/{filePath} serves is given the content type the
\* table holds for its extension, compared without regard to case, and
\* application/octet-stream when the extension is another one or absent.
C11_ContentTypeByExtension ==
  Served => response.body.content_type = TableContentType(ServedName)

(***************************************************************************)
(* The slideshow sequence                                                  *)
(***************************************************************************)
\* a slideshow page was rendered: it holds the sequence of media entries
Shown ==
  /\ request.endpoint = "slideshow_page"
  /\ response.status = 200
  /\ response.body.kind = "slideshow"

\* the sequence /api/media returns for the path and type of the request
MediaSequence ==
  LET listed == list_media_response(request.path, request.media_type)
  IN  IF listed.status # 200 THEN <<>>
      ELSE IF request.media_type = images THEN listed.body.images
      ELSE listed.body.videos

\* the orders of the entries of seq, which are distinct
OrdersOf(seq) ==
  { q \in [DOMAIN seq -> Range(seq)] : Range(q) = Range(seq) }

\* the sequences a slideshow request for the same path and type can return
Outcomes(randomize) ==
  { r.body.media_files :
      r \in slideshow_page_responses(request.media_type, request.path, randomize) }

\* C12: the slideshow sequence is that of /api/media for the type, which is
\* the direct files of the type in ascending order of name; without
\* randomize it is the only sequence any call returns, with randomize it is
\* a permutation of it and every permutation is a possible outcome.
C12_SlideshowSequence ==
  Shown =>
    /\ list_media_response(request.path, request.media_type).status = 200
    /\ Names(MediaSequence) = Files(Listed, request.media_type)
    /\ Len(MediaSequence) = Cardinality(Files(Listed, request.media_type))
    /\ Ascending(MediaSequence)
    /\ ~request.randomize =>
         /\ response.body.media_files = MediaSequence
         /\ Outcomes(FALSE) = {MediaSequence}
    /\ request.randomize =>
         /\ response.body.media_files \in OrdersOf(MediaSequence)
         /\ Outcomes(TRUE) = OrdersOf(MediaSequence)

\* a randomized slideshow of the three images of E, returned in an order
\* that is neither the sorted one nor its reverse
C12_Witness ==
  /\ Shown
  /\ request.randomize
  /\ request.media_type = images
  /\ Len(MediaSequence) = 3
  /\ response.body.media_files[1] = MediaSequence[2]
  /\ response.body.media_files[2] = MediaSequence[1]
  /\ response.body.media_files[3] = MediaSequence[3]

(***************************************************************************)
(* The failures of the slideshow                                           *)
(***************************************************************************)
Slideshow == request.endpoint = "slideshow_page"

ValidMediaType == request.media_type \in {images, videos}

\* the directory of the request cannot be read
Unreadable == is_dir(Target) /\ FS[stat(Target).at].listdir # "ok"

\* the response is a rendered page, with status 200
Rendered == response.status = 200 /\ response.body.kind \in {"slideshow", "not found", "error"}

\* C13: /slideshow/{media_type} answers 404 for a media_type other than
\* images and videos; for a valid one it answers no 5xx: a path that does
\* not exist gives a page with a 'not found' indication and no media entry,
\* a path that is no directory or cannot be read gives a rendered page.
C13_SlideshowFailures ==
  Slideshow =>
    /\ ~ValidMediaType => response.status = 404
    /\ ValidMediaType =>
         /\ response.status \notin 500..599
         /\ (Configured /\ ~exists(Target)) =>
              /\ Rendered
              /\ response.body.kind = "not found"
              /\ response.body.media_files = <<>>
         /\ (Configured /\ exists(Target) /\ (~is_dir(Target) \/ Unreadable)) =>
              /\ Rendered
              /\ response.body.media_files = <<>>

\* a slideshow of a path that is a file, and one of the unreadable directory
\* z, each answered with a rendered page
C13_Witness ==
  /\ Slideshow
  /\ ValidMediaType
  /\ Configured
  /\ exists(Target)
  /\ \/ ~is_dir(Target) /\ request.path = a_jpg
     \/ Unreadable /\ request.path = z
  /\ Rendered
  /\ response.body.kind = "error"

(***************************************************************************)
(* A session: requests to one directory tree, a client keeping one request *)
(* and its response while other requests are served.                       *)
(***************************************************************************)
SessionPaths == {None, A, E}

\* the client keeps the response it is sent
keep ==
  /\ pc = "handled"
  /\ kept = NotKept
  /\ kept' = [request |-> request, response |-> response]
  /\ pc' = "serving"
  /\ request' = NoRequest
  /\ response' = NoResponse
  /\ UNCHANGED <<MEDIA_ROOT, random_state>>

SessionNext ==
  \/ \E media_root \in Roots \cup {None} : main(media_root)
  \/ /\ pc = "serving"
     /\ \E path \in SessionPaths : list_directories(path, NoFault)
  \/ /\ pc = "serving"
     /\ \E path \in SessionPaths, media_type \in {None, images} :
          list_media(path, media_type)
  \/ /\ pc = "serving"
     /\ \E path \in SessionPaths, randomize \in BOOLEAN :
          slideshow_page(images, path, randomize)
  \/ /\ pc = "serving"
     /\ \E file_path \in {a_jpg, A} : serve_media(file_path)
  \/ send
  \/ keep

SessionSpec == Init /\ [][SessionNext]_vars

\* a step of a request handler
Handles == pc = "serving" /\ pc' = "handled"

\* the root changes only as main() hands over to the server, and no step
\* returns to main()
RootSetBeforeServing ==
  /\ MEDIA_ROOT' # MEDIA_ROOT => (pc = "main" /\ pc' = "serving")
  /\ pc' = "main" => pc = "main"

\* a request to /api/directories or /api/media that repeats the kept one is
\* given the kept response
SameResponseAgain ==
  (pc = "handled" /\ request.endpoint \in ListEndpoints /\ request = kept.request)
     => response = kept.response

IsRelative(path) == path = <<>> \/ path[1] # "/"

\* the entries a successful response returns: directories, and media
DirectoryEntries ==
  IF ListedDirectories THEN Range(response.body.directories) ELSE {}

MediaEntries ==
  IF ListedMedia THEN Range(response.body.images) \cup Range(response.body.videos)
  ELSE IF Shown THEN Range(response.body.media_files)
  ELSE {}

\* the node the entry is of: the child of that name of the requested directory
EntryNode(entry) == stat(Append(Target, entry.name)).at

\* /api/directories with the path of the entry lists the directory of the entry
ListsSameDirectory(entry) ==
  /\ list_directories_response(entry.path, NoFault).status \notin {400, 403, 404}
  /\ stat(target_dir_of(Path(MEDIA_ROOT), entry.path)) = stat(Append(Target, entry.name))

\* /media/ with the path of the entry serves the file of the entry
ServesSameFile(entry) ==
  /\ serve_media_response(entry.path).status = 200
  /\ serve_media_response(entry.path).body.file = EntryNode(entry)

\* C15: whatever path the client supplied, the path of every returned entry
\* is relative to the root, /api/directories with the path of a directory
\* entry lists that directory and /media/ with the path of a media entry
\* serves that file.
C15_ReturnedPathsRoundTrip ==
  /\ \A entry \in DirectoryEntries :
       IsRelative(entry.path) /\ ListsSameDirectory(entry)
  /\ \A entry \in MediaEntries :
       IsRelative(entry.path) /\ ServesSameFile(entry)

=============================================================================
